---- MODULE Spec2Model ----
(***************************************************************************)
(* Asset lifecycle and background refresh of the Fintel API.               *)
(*                                                                         *)
(* The model covers the append request handler with its first-time         *)
(* ingestion (utils/request_handlers.py), the refresh scheduler            *)
(* DataAndModelUpdater (utils/parallel.py), the entry of train_lstm_model  *)
(* (utils/lstm_model.py) and the two tables they write (utils/db_models.py)*)
(*                                                                         *)
(* Every thread of execution owns its SQLAlchemy session: rows are staged  *)
(* with add(), persisted by commit() and discarded by rollback().  A query *)
(* autoflushes, so it sees the committed rows and the rows staged by its   *)
(* own session.                                                            *)
(***************************************************************************)
EXTENDS Bags, FiniteSets, Integers, Sequences, TLC

\* ---------------------------------------------------------------- bounds
MaxLen == 2
MaxDate == 2
MaxIterations == 1
MaxRows == 12
MaxRuns == 2

\* ------------------------------------------------------------- constants
sequence_length == 10

Symbols == {"A", "B"}
\* A request element that is not a str (a dict, a number, ...).
NonString == "<non-str>"
\* A request body that is not a list.
NotAList == <<"<object>">>
Dates == 1..MaxDate
Workers == {"w1"}
Methods == {"POST", "GET", "PUT", "DELETE"}
RequestLists == UNION {[1..n -> Symbols \cup {NonString}] : n \in 0..MaxLen}
Bodies == RequestLists \cup {NotAList}
\* The requests a worker receives: the body matters to POST only.
Requests ==
    {[method |-> m, body |-> <<>>] : m \in Methods \ {"POST"}}
    \cup {[method |-> "POST", body |-> b] : b \in Bodies}
\* DataAndModelUpdater(iterations=None)
None == -1


\* What yf.download hands back: it raises, returns None, or returns a frame
\* that has the expected columns or not, with one row per date in rows (of a
\* frame without the columns only whether it has rows is told apart).
FetchResults ==
    {[kind |-> "raise", cols |-> FALSE, rows |-> {}],
     [kind |-> "none", cols |-> FALSE, rows |-> {}]}
    \cup {[kind |-> "frame", cols |-> TRUE, rows |-> D] : D \in SUBSET Dates}
    \cup {[kind |-> "frame", cols |-> FALSE, rows |-> D] : D \in {{}, Dates}}
NoData == [kind |-> "none", cols |-> FALSE, rows |-> {}]

VARIABLES
    assets,         \* table assets: sequence of rows, id = position
    price_points,   \* table price_points: bag of rows
    pc,             \* position of each request worker
    to_analyze,     \* asset_symbols_to_be_analyzed
    idx,            \* position in to_analyze of the symbol being ingested
    data,           \* result of yf.download of the current ingestion run
    store_result,   \* outcome of the bar storage of the current run
    response,       \* status code returned for the last request
    response_object,\* response object returned for the last request
    read_queries,   \* query() calls of the symbols or data handler, this request
    rollbacks,      \* rollback() calls on the worker's session, this request
    session,        \* rows staged in the worker's session
    sched_pc,       \* position of the DataAndModelUpdater thread
    iterations,     \* self._iterations
    count,          \* count of _run
    active_assets,  \* snapshot of the active assets of this iteration
    sched_idx,      \* position in active_assets
    sched_store,    \* outcome of the bar storage of the incremental run
    sched_session,  \* rows staged in the scheduler's session
    sched_rollbacks,\* rollback() calls on the scheduler's session
    sched_calls,    \* its query(), add() and commit() calls, this iteration
    crash_cause,    \* the call whose exception ended the scheduler thread
    caller_pc,      \* the thread constructing the updater: "init", "returned"
    train_pc,       \* position of a call of train_lstm_model
    series,         \* the asset's price rows, ordered by date
    window_length,  \* sequence_length or lookback of the window construction
    windows,        \* the (window, target) pairs built from series
    runs,           \* calls of train_lstm_model so far, this one included
    ai_models,      \* table ai_models: sequence of rows, id = position
    predictions,    \* table predictions: sequence of rows, id = position
    train_session,  \* rows staged in the session given to train_lstm_model
    train_rollbacks,\* rollback() calls on that session
    train_exc,      \* the exception that left the call, or "none"
    handler,        \* class of the handler create_handler returned
    raised,         \* the exception that left create_handler, or "none"
    fetch_call,     \* a call of fetch_data: its arguments, fetch and result
    received        \* the body of the POST each worker has received

reply == <<response, response_object, read_queries>>
wvars == <<pc, to_analyze, idx, data, store_result, reply, rollbacks,
           session>>
svars == <<sched_pc, iterations, count, active_assets, sched_idx,
           sched_store, sched_session, sched_rollbacks, sched_calls,
           crash_cause, caller_pc>>
tvars == <<train_pc, series, window_length, windows, runs, ai_models,
           predictions, train_session, train_rollbacks, train_exc>>
fvars == <<handler, raised>>
dvars == <<fetch_call>>
rvars == <<received>>
vars == <<assets, price_points, wvars, svars, tvars, fvars, dvars, rvars>>

\* ------------------------------------------------------------ the store
\* dirty: the ids of the asset rows whose change of status to active is
\* pending in the session.
EmptySession == [assets |-> <<>>, prices |-> EmptyBag, dirty |-> {}]

AssetRow(symbol) ==
    [symbol |-> symbol, processing_status |-> "pending", description |-> "null"]

PriceRow(asset_id, d) ==
    [asset_id |-> asset_id, date |-> d, source |-> "yahoo_finance"]

RowsOf(asset_id, D) == SetToBag({PriceRow(asset_id, d) : d \in D})

SymbolsOf(rows) == {rows[i].symbol : i \in DOMAIN rows}

AssetId(symbol) == CHOOSE i \in DOMAIN assets : assets[i].symbol = symbol

HasPrice(asset_id) ==
    \E r \in BagToSet(price_points) : r.asset_id = asset_id

\* session.query(AssetsDbTable).filter_by(symbol=...).first() is not None
SymbolExists_NoCheck(symbol, staged) == FALSE
SymbolExists_Committed(symbol, staged) == symbol \in SymbolsOf(assets)
SymbolExists(symbol, staged) ==
    symbol \in SymbolsOf(assets) \cup {staged[i] : i \in DOMAIN staged}

\* unique=True on assets.symbol
UniqueSymbol_Off(staged) == TRUE
UniqueSymbol(staged) ==
    /\ \A i, j \in DOMAIN staged : staged[i] = staged[j] => i = j
    /\ \A i \in DOMAIN staged : staged[i] \notin SymbolsOf(assets)

\* UniqueConstraint("asset_id", "date", "source")
UniqueAssetDateSource_Off(staged) == TRUE
UniqueAssetDateSource(staged) ==
    \A r \in BagToSet(price_points (+) staged) :
        CopiesIn(r, price_points (+) staged) <= 1

\* session.commit() accepts the staged rows
CommitAccepted(s) == UniqueSymbol(s.assets) /\ UniqueAssetDateSource(s.prices)

RECURSIVE InsertAssets(_, _)
InsertAssets(rows, staged) ==
    IF staged = <<>> THEN rows
    ELSE InsertAssets(Append(rows, AssetRow(Head(staged))), Tail(staged))

\* session.rollback()
Rollback_Keep(s) == s
Rollback(s) == EmptySession

\* session.commit() of the staged rows s: the tables afterwards
CommittedAssets(s) == InsertAssets(assets, s.assets)
CommittedPrices(s) == price_points (+) s.prices

\* ------------------------------------------------------ request worker
IsStr(e) == e # NonString
IsList_Anything(body) == TRUE

IsList(body) == body # NotAList
HasNonString(body) == \E i \in DOMAIN body : ~IsStr(body[i])

\* The validation loop of _AppendHandler.process: stops at the first element
\* that is not a str, skips a symbol that exists, stages the others.
RECURSIVE StageSymbols(_, _, _, _)
StageSymbols(request, i, staged, analyze) ==
    IF i > Len(request) THEN
        [invalid |-> FALSE, staged |-> staged, analyze |-> analyze]
    ELSE IF ~IsStr(request[i]) THEN
        [invalid |-> TRUE, staged |-> staged, analyze |-> analyze]
    ELSE IF SymbolExists(request[i], staged) THEN
        StageSymbols(request, i + 1, staged, analyze)
    ELSE
        StageSymbols(request, i + 1, Append(staged, request[i]),
                     Append(analyze, request[i]))

\* process returns (response, status): the locals of the call are gone.
Reply(w, b, status) ==
    /\ pc' = [pc EXCEPT ![w] = "done"]
    /\ response' = [response EXCEPT ![w] = status]
    /\ response_object' = [response_object EXCEPT ![w] = b]
    /\ to_analyze' = [to_analyze EXCEPT ![w] = <<>>]
    /\ idx' = [idx EXCEPT ![w] = 0]
    /\ data' = [data EXCEPT ![w] = NoData]
    /\ store_result' = [store_result EXCEPT ![w] = "none"]

\* The response objects of the handlers: {}, {"error": <string>},
\* {"symbols": [...]} and {"description": ..., "prices": [...]}.
EmptyBody == [kind |-> "empty"]
ErrorBody == [kind |-> "error", error |-> "string"]

\* The returns of _AppendHandler.process: {} with 204, an error with 400 or
\* 500.
Respond(w, status) ==
    /\ Reply(w, IF status = 204 THEN EmptyBody ELSE ErrorBody, status)
    /\ UNCHANGED read_queries

\* An exception reaches the except clause of process: rollback and 500.
Fail500(w, s) ==
    /\ Respond(w, 500)
    /\ session' = [session EXCEPT ![w] = Rollback(s)]
    /\ rollbacks' = [rollbacks EXCEPT ![w] = @ + 1]

\* _AppendHandler.process of the request r, up to the commit
ProcessRequest(w, r) ==
    /\ pc[w] = "idle"
    /\ IF r.method # "POST" THEN
           /\ Respond(w, 204)
           /\ UNCHANGED <<session, rollbacks>>
       ELSE IF ~IsList(r.body) \/ r.body = <<>> THEN
           /\ Respond(w, 400)
           /\ UNCHANGED <<session, rollbacks>>
       ELSE
           LET st == StageSymbols(r.body, 1, session[w].assets, <<>>)
               staged == [session[w] EXCEPT !.assets = st.staged]
           IN  IF st.invalid THEN
                   /\ Respond(w, 400)
                   /\ session' = [session EXCEPT ![w] = Rollback(staged)]
                   /\ rollbacks' = [rollbacks EXCEPT ![w] = @ + 1]
               ELSE
                   /\ pc' = [pc EXCEPT ![w] = "commit"]
                   /\ session' = [session EXCEPT ![w] = staged]
                   /\ to_analyze' = [to_analyze EXCEPT ![w] = st.analyze]
                   /\ UNCHANGED <<reply, rollbacks, idx, data,
                                  store_result>>
    /\ UNCHANGED <<assets, price_points, svars, tvars, fvars, dvars, rvars>>

Process(w) == \E r \in Requests : ProcessRequest(w, r)

\* The commit of process, and the start of the ingestion of the new symbols
\* by Thread(...).run(), which runs the target in the calling thread.
ProcessCommit(w) ==
    /\ pc[w] = "commit"
    /\ \E ok \in BOOLEAN :
        IF ok /\ CommitAccepted(session[w]) THEN
            /\ assets' = CommittedAssets(session[w])
            /\ price_points' = CommittedPrices(session[w])
            /\ session' = [session EXCEPT ![w] = EmptySession]
            /\ IF to_analyze[w] = <<>> THEN
                   Respond(w, 204)
               ELSE
                   /\ pc' = [pc EXCEPT ![w] = "fetch"]
                   /\ idx' = [idx EXCEPT ![w] = 1]
                   /\ UNCHANGED <<reply, to_analyze, data, store_result>>
            /\ UNCHANGED rollbacks
        ELSE
            /\ Fail500(w, session[w])
            /\ UNCHANGED <<assets, price_points>>
    /\ UNCHANGED <<svars, tvars, fvars, dvars, rvars>>

\* process has returned: the worker is free for the next request.
Return(w) ==
    /\ pc[w] = "done"
    /\ pc' = [pc EXCEPT ![w] = "idle"]
    /\ response' = [response EXCEPT ![w] = 0]
    /\ response_object' = [response_object EXCEPT ![w] = EmptyBody]
    /\ read_queries' = [read_queries EXCEPT ![w] = 0]
    /\ rollbacks' = [rollbacks EXCEPT ![w] = 0]
    /\ UNCHANGED <<assets, price_points, session, to_analyze, idx, data,
                   store_result, svars, tvars, fvars, dvars, rvars>>

\* ----------------------------------------------- first-time ingestion
Symbol(w) == to_analyze[w][idx[w]]

\* _fetch_from_yahoo_finance returns: _analyze_symbols_from_list goes on with
\* the next symbol, and after the last one process returns ({}, 204).
NextSymbol(w, result) ==
    IF idx[w] < Len(to_analyze[w]) THEN
        /\ pc' = [pc EXCEPT ![w] = "fetch"]
        /\ idx' = [idx EXCEPT ![w] = @ + 1]
        /\ data' = [data EXCEPT ![w] = NoData]
        /\ store_result' = [store_result EXCEPT ![w] = result]
        /\ UNCHANGED <<reply, to_analyze>>
    ELSE
        Respond(w, 204)

\* The rows add()ed before an exception at row k of the frame; all of them
\* when the exception is raised by commit().
StagedUpTo(asset_id, D, k) == RowsOf(asset_id, {d \in D : d <= k})

\* _AppendHandler._fetch_from_yahoo_finance: asset id lookup, yf.download
\* and the reshaping of the frame
FirstFetchTarget(f) ==
    IF f.kind \in {"raise", "none"} THEN "return"
    ELSE IF ~f.cols THEN "KeyError"
    ELSE "store"

FetchFromYahooFinance(w, lookup_ok, f) ==
    /\ pc[w] = "fetch"
    /\ IF ~lookup_ok THEN
           /\ NextSymbol(w, "none")
           /\ UNCHANGED <<session, rollbacks>>
       ELSE
           CASE FirstFetchTarget(f) = "return" ->
                  /\ NextSymbol(w, "none")
                  /\ UNCHANGED <<session, rollbacks>>
             [] FirstFetchTarget(f) = "KeyError" ->
                  Fail500(w, session[w])
             [] OTHER ->
                  /\ pc' = [pc EXCEPT ![w] = "store"]
                  /\ data' = [data EXCEPT ![w] = f]
                  /\ store_result' = [store_result EXCEPT ![w] = "none"]
                  /\ UNCHANGED <<idx, reply, to_analyze, session,
                                 rollbacks>>
    /\ UNCHANGED <<assets, price_points, svars, tvars, fvars, dvars, rvars>>

IngestFetch(w) ==
    \E lookup_ok \in BOOLEAN, f \in FetchResults :
        FetchFromYahooFinance(w, lookup_ok, f)

\* except Exception of the bar storage: rollback, then return
StoreFailed_FallThrough(w, staged) ==
    /\ session' = [session EXCEPT ![w] = Rollback(staged)]
    /\ rollbacks' = [rollbacks EXCEPT ![w] = @ + 1]
    /\ store_result' = [store_result EXCEPT ![w] = "rolled_back"]
    /\ pc' = [pc EXCEPT ![w] = "promote"]
    /\ UNCHANGED <<idx, reply, to_analyze, data>>
StoreFailed_NoRollback(w, staged) ==
    /\ session' = [session EXCEPT ![w] = staged]
    /\ UNCHANGED rollbacks
    /\ NextSymbol(w, "rolled_back")
StoreFailed(w, staged) ==
    /\ session' = [session EXCEPT ![w] = Rollback(staged)]
    /\ rollbacks' = [rollbacks EXCEPT ![w] = @ + 1]
    /\ NextSymbol(w, "rolled_back")

\* The commit of the bar storage succeeds: the bars are in the price store
\* before the promotion block starts.
StoreCommitted_Staged(w, all) ==
    /\ session' = [session EXCEPT ![w] = all]
    /\ UNCHANGED <<assets, price_points>>
StoreCommitted(w, all) ==
    /\ assets' = CommittedAssets(all)
    /\ price_points' = CommittedPrices(all)
    /\ session' = [session EXCEPT ![w] = EmptySession]

\* _AppendHandler._fetch_from_yahoo_finance: the bar storage
IngestStore(w) ==
    /\ pc[w] = "store"
    /\ \E ok \in BOOLEAN, k \in 0..MaxDate :
        LET asset_id == AssetId(Symbol(w))
            all == [session[w] EXCEPT
                       !.prices = @ (+) RowsOf(asset_id, data[w].rows)]
            part == [session[w] EXCEPT
                       !.prices = @ (+) StagedUpTo(asset_id, data[w].rows, k)]
        IN  IF ok /\ CommitAccepted(all) THEN
                /\ StoreCommitted(w, all)
                /\ store_result' = [store_result EXCEPT ![w] = "ok"]
                /\ pc' = [pc EXCEPT ![w] = "promote"]
                /\ UNCHANGED <<idx, reply, to_analyze, rollbacks, data>>
            ELSE
                /\ StoreFailed(w, IF ok THEN all ELSE part)
                /\ UNCHANGED <<assets, price_points>>
    /\ UNCHANGED <<svars, tvars, fvars, dvars, rvars>>

\* ref_asset_entry.processing_status = "active" and its description
Promoted_All(rows, asset_id, description) ==
    [i \in DOMAIN rows |->
        [rows[i] EXCEPT !.processing_status = "active",
                        !.description = description]]

Promoted_StatusOnly(rows, asset_id, description) ==
    [rows EXCEPT ![asset_id].processing_status = "active"]

Promoted(rows, asset_id, description) ==
    [rows EXCEPT ![asset_id].processing_status = "active",
                 ![asset_id].description = description]

\* metadata.get("longName", "Description not available")
Description(meta) ==
    IF meta = "named" THEN "longName" ELSE "Description not available"

\* Ticker(asset_symbol).info: it raises, or it is a dict with or without
\* the key "longName".
Metadata == {"raise", "named", "unnamed"}

\* _AppendHandler._fetch_from_yahoo_finance: metadata and promotion, all in
\* one try
PromoteWith(w, meta, ok) ==
    /\ pc[w] = "promote"
    /\  IF meta # "raise" /\ ok /\ CommitAccepted(session[w]) THEN
            /\ assets' = Promoted(CommittedAssets(session[w]),
                                  AssetId(Symbol(w)), Description(meta))
            /\ price_points' = CommittedPrices(session[w])
            /\ session' = [session EXCEPT ![w] = EmptySession]
            /\ UNCHANGED rollbacks
            /\ NextSymbol(w, "promoted")
        ELSE
            /\ session' = [session EXCEPT ![w] = Rollback(session[w])]
            /\ rollbacks' = [rollbacks EXCEPT ![w] = @ + 1]
            /\ UNCHANGED <<assets, price_points>>
            /\ NextSymbol(w, "not_promoted")
    /\ UNCHANGED <<svars, tvars, fvars, dvars, rvars>>

IngestPromote(w) ==
    \E meta \in Metadata, ok \in BOOLEAN : PromoteWith(w, meta, ok)

\* ------------------------------------------------- refresh scheduler
\* query(AssetsDbTable.id, AssetsDbTable.symbol).filter_by(
\*     processing_status="active").all()
RECURSIVE ActiveAssets(_, _)
ActiveAssets(rows, i) ==
    IF i > Len(rows) THEN <<>>
    ELSE IF rows[i].processing_status = "active"
         THEN <<[id |-> i, symbol |-> rows[i].symbol]>>
              \o ActiveAssets(rows, i + 1)
         ELSE ActiveAssets(rows, i + 1)

\* while self._iterations is None or count < self._iterations
LoopCondition_OffByOne == iterations = None \/ count <= iterations

LoopCondition == iterations = None \/ count < iterations

\* An exception leaves _run: the scheduler thread ends.
Crash(cause) ==
    /\ sched_pc' = "crashed"
    /\ crash_cause' = cause
    /\ active_assets' = <<>>
    /\ sched_idx' = 0

\* No call on the session yet.
NoCalls == [query |-> 0, add |-> 0, commit |-> 0]

\* The session of the served application is no MagicMock: it counts no
\* calls.
NotMocked == [query |-> None, add |-> None, commit |-> None]

\* The call counts after calls, of a session that counts them.
Counted(calls) == IF sched_calls = NotMocked THEN NotMocked ELSE calls

\* DataAndModelUpdater._run: one more iteration, the listing of the assets
SchedIterate ==
    /\ sched_pc = "loop"
    /\ LoopCondition
    /\ count' = IF iterations # None THEN count + 1 ELSE count
    /\ sched_calls' = Counted([NoCalls EXCEPT !.query = 1])
    /\ \E query_ok \in BOOLEAN :
        IF ~query_ok THEN
            Crash("query")
        ELSE
            /\ active_assets' = ActiveAssets(assets, 1)
            /\ sched_idx' = 1
            /\ sched_pc' = IF ActiveAssets(assets, 1) = <<>>
                           THEN "sleep" ELSE "fetch"
            /\ UNCHANGED crash_cause
    /\ UNCHANGED <<assets, price_points, wvars, tvars, fvars, dvars, rvars, caller_pc, iterations, sched_store,
                   sched_session, sched_rollbacks>>

\* DataAndModelUpdater._run: the loop condition is false
SchedExit ==
    /\ sched_pc = "loop"
    /\ ~LoopCondition
    /\ sched_pc' = "exited"
    /\ UNCHANGED <<assets, price_points, wvars, tvars, fvars, dvars, rvars, caller_pc, iterations, count,
                   active_assets, sched_idx, sched_store, sched_session,
                   sched_rollbacks, sched_calls, crash_cause>>

\* time.sleep(28800)
SchedSleep ==
    /\ sched_pc = "sleep"
    /\ sched_pc' = "loop"
    /\ UNCHANGED <<assets, price_points, wvars, tvars, fvars, dvars, rvars, caller_pc, iterations, count,
                   active_assets, sched_idx, sched_store, sched_session,
                   sched_rollbacks, sched_calls, crash_cause>>

\* DataAndModelUpdater._fetch_from_yfinance: yf.download and the reshaping
IncrementalFetchTarget(f) ==
    IF f.kind \in {"raise", "none"} \/ f.rows = {} THEN "return"
    ELSE IF ~f.cols THEN "KeyError"
    ELSE "store"

\* The calls of the bar storage: add() for each row reached, and commit()
\* when all were.
StoreCalls(f, ok, k) ==
    Counted([sched_calls EXCEPT
                !.add = @ + (IF ok \/ k >= MaxDate
                             THEN Cardinality(f.rows)
                             ELSE Cardinality({d \in f.rows : d <= k})),
                !.commit = @ + (IF ok \/ k >= MaxDate THEN 1 ELSE 0)])

StorePriceHistory_NoRollback(f, ok, k) ==
    LET asset_id == active_assets[sched_idx].id
        all == [sched_session EXCEPT
                   !.prices = @ (+) RowsOf(asset_id, f.rows)]
    IN  /\ IF ok /\ CommitAccepted(all) THEN
               /\ assets' = CommittedAssets(all)
               /\ price_points' = CommittedPrices(all)
               /\ sched_session' = EmptySession
               /\ sched_store' = "ok"
               /\ UNCHANGED sched_rollbacks
           ELSE
               /\ sched_session' = all
               /\ sched_store' = IF ok THEN "integrity" ELSE "error"
               /\ UNCHANGED <<assets, price_points, sched_rollbacks>>
        /\ sched_calls' = StoreCalls(f, ok, k)

\* The bar storage of _fetch_from_yfinance: every row of the frame is
\* add()ed and the batch is committed; ok tells that nothing but the unique
\* constraint raises, k is the row at which something else does.
StorePriceHistory(f, ok, k) ==
    LET asset_id == active_assets[sched_idx].id
        all == [sched_session EXCEPT
                   !.prices = @ (+) RowsOf(asset_id, f.rows)]
        part == [sched_session EXCEPT
                   !.prices = @ (+) StagedUpTo(asset_id, f.rows, k)]
    IN  /\ IF ok /\ CommitAccepted(all) THEN
               /\ assets' = CommittedAssets(all)
               /\ price_points' = CommittedPrices(all)
               /\ sched_session' = EmptySession
               /\ sched_store' = "ok"
               /\ UNCHANGED sched_rollbacks
           ELSE
               /\ sched_session' = Rollback(IF ok THEN all ELSE part)
               /\ sched_rollbacks' = sched_rollbacks + 1
               /\ sched_store' = IF ok THEN "integrity" ELSE "error"
               /\ UNCHANGED <<assets, price_points>>
        /\ sched_calls' = StoreCalls(f, ok, k)

\* One step: from the download to the commit the method reads nothing that
\* another thread writes.
FetchFromYfinance(f, ok, k) ==
    /\ sched_pc = "fetch"
    /\ CASE IncrementalFetchTarget(f) = "return" ->
              /\ sched_pc' = "train"
              /\ sched_store' = "none"
              /\ UNCHANGED <<crash_cause, active_assets, sched_idx, assets,
                             price_points, sched_session, sched_rollbacks,
                             sched_calls>>
         [] IncrementalFetchTarget(f) = "KeyError" ->
              /\ Crash("ingest")
              /\ sched_store' = "none"
              /\ UNCHANGED <<assets, price_points, sched_session,
                             sched_rollbacks, sched_calls>>
         [] OTHER ->
              /\ sched_pc' = "train"
              /\ StorePriceHistory(f, ok, k)
              /\ UNCHANGED <<crash_cause, active_assets, sched_idx>>
    /\ UNCHANGED <<wvars, tvars, fvars, dvars, rvars, caller_pc, iterations, count>>

SchedFetch ==
    \E f \in FetchResults, ok \in BOOLEAN, k \in 0..MaxDate :
        FetchFromYfinance(f, ok, k)

\* The number of price rows train_lstm_model reads for the asset
NumPrices(asset_id) ==
    Cardinality({r \in BagToSet(price_points) : r.asset_id = asset_id})

\* _prepare_training_data: range(len(data) - sequence_length) windows, and
\* ValueError when there is none
PrepareTrainingData(n) ==
    IF n - sequence_length <= 0 THEN "ValueError" ELSE "windows"

\* Where a call of train_lstm_model ends: it returns ("trained"), or an
\* exception leaves it at the preparation of the windows, at the loading or
\* the fitting of the model, or at one of its two commits.
TrainOutcomes == {"trained", "fit", "commit_model", "commit_prediction"}

\* The calls of train_lstm_model on the session: the queries of the price
\* rows and of the predictions, then that of the model, its add() when it
\* is new (m = 1) and the commit, then the queries of the model and of the
\* prediction, its add() when it is new (p = 1) and the commit.
TrainCalls(outcome, m, p) ==
    Counted(
        CASE outcome = "ValueError" ->
                 [sched_calls EXCEPT !.query = @ + 2]
          [] outcome = "fit" ->
                 [sched_calls EXCEPT !.query = @ + 3]
          [] outcome = "commit_model" ->
                 [sched_calls EXCEPT !.query = @ + 3, !.add = @ + m,
                                     !.commit = @ + 1]
          [] OTHER ->
                 [sched_calls EXCEPT !.query = @ + 5, !.add = @ + m + p,
                                     !.commit = @ + 2])

\* train_lstm_model(asset_id, self._db_session) called by _run without a
\* try: its exception leaves _run
TrainLstmModel(outcome, m, p) ==
    /\ sched_pc = "train"
    /\ LET prepared ==
               PrepareTrainingData(NumPrices(active_assets[sched_idx].id))
       IN  IF prepared = "ValueError" \/ outcome # "trained" THEN
               /\ Crash("train")
               /\ sched_calls' =
                      TrainCalls(IF prepared = "ValueError"
                                 THEN "ValueError" ELSE outcome, m, p)
           ELSE
               /\ sched_calls' = TrainCalls("trained", m, p)
               /\ UNCHANGED <<crash_cause, active_assets>>
               /\ IF sched_idx < Len(active_assets) THEN
                      /\ sched_idx' = sched_idx + 1
                      /\ sched_pc' = "fetch"
                  ELSE
                      /\ sched_pc' = "sleep"
                      /\ UNCHANGED sched_idx
    /\ sched_store' = "none"
    /\ UNCHANGED <<assets, price_points, wvars, tvars, fvars, dvars, rvars, caller_pc,
                   iterations, count, sched_session, sched_rollbacks>>

\* Without windows the call ends at their preparation, whatever else.
SchedTrain ==
    /\ sched_pc = "train"
    /\ IF PrepareTrainingData(NumPrices(active_assets[sched_idx].id))
              = "ValueError"
       THEN TrainLstmModel("trained", 0, 0)
       ELSE \E outcome \in TrainOutcomes, m \in 0..1, p \in 0..1 :
               TrainLstmModel(outcome, m, p)

\* ------------------------------------------------------- specification
(***************************************************************************)
(* utils/request_handlers.py: _SymbolsHandler and _DataHandler             *)
(***************************************************************************)

\* Literal["GET", "POST", "PUT", "DELETE"]
RestMethods == {"GET", "POST", "PUT", "DELETE"}

\* query(AssetsDbTable.symbol).filter_by(processing_status="active").all(),
\* as the list of the symbols, in the order of the rows.
RECURSIVE ActiveSymbols_All(_)
ActiveSymbols_All(rows) ==
    IF rows = <<>> THEN <<>>
    ELSE <<Head(rows).symbol>> \o ActiveSymbols_All(Tail(rows))

RECURSIVE ActiveSymbols(_)
ActiveSymbols(rows) ==
    IF rows = <<>> THEN <<>>
    ELSE (IF Head(rows).processing_status = "active"
          THEN <<Head(rows).symbol>> ELSE <<>>)
         \o ActiveSymbols(Tail(rows))

\* _SymbolsHandler.process
SymbolsHandlerProcess(w, method) ==
    /\ pc[w] = "idle"
    /\ IF method = "GET" THEN
           /\ read_queries' = [read_queries EXCEPT ![w] = @ + 1]
           /\ Reply(w, [kind |-> "symbols",
                        symbols |-> ActiveSymbols(assets)], 200)
       ELSE
           /\ Reply(w, EmptyBody, 204)
           /\ UNCHANGED read_queries
    /\ UNCHANGED <<assets, price_points, session, rollbacks, svars, tvars, fvars, dvars, rvars>>

SymbolsProcess(w) == \E method \in RestMethods : SymbolsHandlerProcess(w, method)

\* The value of a field the request object does not have.
NoSymbol == "None"

\* A date field of the request object that is not a str.
NonStringDate == 0

\* The requests of the data endpoint: a list, or an object whose fields
\* symbol, start_date and end_date are there or not, as a str or as
\* something else.
DataRequests ==
    {[is_list |-> TRUE, symbol |-> NoSymbol, start_date |-> None,
      end_date |-> None]}
    \cup [is_list : {FALSE},
          symbol : Symbols \cup {NoSymbol, NonString},
          start_date : Dates \cup {None, NonStringDate},
          end_date : Dates \cup {None, NonStringDate}]

\* The rows of the join of assets and price_points for the symbol, between
\* the two dates: the dates of the price rows found.
JointEntries(symbol, start_date, end_date) ==
    {r.date : r \in
        {r \in BagToSet(price_points) :
            /\ assets[r.asset_id].symbol = symbol
            \* no row compares with a bound that is not a date
            /\ start_date # NonStringDate
            /\ end_date # NonStringDate
            /\ r.date >= start_date
            /\ r.date <= end_date}}

\* The except clause of _DataHandler.process.
DataFailed_NoRollback(w) ==
    /\ Reply(w, ErrorBody, 500)
    /\ UNCHANGED <<session, rollbacks>>

DataFailed(w) ==
    /\ Reply(w, ErrorBody, 500)
    /\ session' = [session EXCEPT ![w] = Rollback(session[w])]
    /\ rollbacks' = [rollbacks EXCEPT ![w] = @ + 1]

\* _DataHandler.process: raises tells whether the query raises.
DataHandlerProcess(w, method, r, raises) ==
    /\ pc[w] = "idle"
    /\ IF method # "GET" THEN
           /\ Reply(w, EmptyBody, 204)
           /\ UNCHANGED <<read_queries, session, rollbacks>>
       ELSE IF r.is_list THEN
           /\ Reply(w, ErrorBody, 400)
           /\ UNCHANGED <<read_queries, session, rollbacks>>
       ELSE IF r.symbol = NoSymbol \/ r.start_date = None
                  \/ r.end_date = None THEN
           /\ Reply(w, ErrorBody, 400)
           /\ UNCHANGED <<read_queries, session, rollbacks>>
       ELSE
           /\ read_queries' = [read_queries EXCEPT ![w] = @ + 1]
           /\ IF raises
                 \/ JointEntries(r.symbol, r.start_date, r.end_date) = {} THEN
                  \* the query raises, or joint_entries[0] does
                  DataFailed(w)
              ELSE
                  /\ Reply(w, [kind |-> "prices",
                               description |->
                                   assets[AssetId(r.symbol)].description,
                               prices |-> JointEntries(r.symbol, r.start_date,
                                                       r.end_date)], 200)
                  /\ UNCHANGED <<session, rollbacks>>
    /\ UNCHANGED <<assets, price_points, svars, tvars, fvars, dvars, rvars>>

\* The request and the store matter to GET only.
DataProcess(w) ==
    \E method \in RestMethods :
        IF method = "GET" THEN
            \E r \in DataRequests, raises \in BOOLEAN :
                DataHandlerProcess(w, method, r, raises)
        ELSE
            \E r \in {x \in DataRequests : x.is_list} :
                DataHandlerProcess(w, method, r, FALSE)

(***************************************************************************)
(* app.py post_request with utils/data.py: the route that ingests with     *)
(* analyze_symbols_from_list                                               *)
(***************************************************************************)

\* jsonify({"success": True}) and jsonify({"success": False, "message": ...})
SuccessBody == [kind |-> "success"]
FailureBody == [kind |-> "failure", message |-> "string"]

\* The status of a response made by jsonify alone.
JsonifyStatus == 200

\* An exception leaves analyze_symbols_from_list, run by Thread(...).run() in
\* the try of post_request: its except rolls back and answers the failure.
LegacyRaise(w) ==
    /\ Reply(w, FailureBody, JsonifyStatus)
    /\ session' = [session EXCEPT ![w] = Rollback(session[w])]
    /\ rollbacks' = [rollbacks EXCEPT ![w] = @ + 1]
    /\ UNCHANGED read_queries

\* _fetch_from_yahoo_finance returns: the loop of analyze_symbols_from_list
\* goes on, and after the last symbol post_request answers the success.
LegacyNextSymbol(w, result) ==
    IF idx[w] < Len(to_analyze[w]) THEN
        /\ pc' = [pc EXCEPT ![w] = "fetch"]
        /\ idx' = [idx EXCEPT ![w] = @ + 1]
        /\ data' = [data EXCEPT ![w] = NoData]
        /\ store_result' = [store_result EXCEPT ![w] = result]
        /\ UNCHANGED <<reply, to_analyze>>
    ELSE
        /\ Reply(w, SuccessBody, JsonifyStatus)
        /\ UNCHANGED read_queries

\* The asset rows with the pending changes of status applied.
RECURSIVE Activated(_, _)
Activated(rows, ids) ==
    IF ids = {} THEN rows
    ELSE LET i == CHOOSE i \in ids : TRUE
         IN  Activated([rows EXCEPT ![i].processing_status = "active"],
                       ids \ {i})

\* db.session.commit() of data.py: the tables afterwards.
LegacyCommittedAssets(s) == Activated(InsertAssets(assets, s.assets), s.dirty)

\* data.py _fetch_from_yahoo_finance: the lookup of the asset id, yf.download
\* and the reshaping. The except of the download prints and does not
\* return: the test of data that follows reads a name that was never bound.
LegacyFetchFromYahooFinance(w, lookup_ok, f) ==
    /\ pc[w] = "fetch"
    /\ IF ~lookup_ok THEN
           /\ LegacyNextSymbol(w, "lookup_failed")
           /\ UNCHANGED <<session, rollbacks>>
       ELSE IF f.kind = "raise" THEN
           \* UnboundLocalError at "if data is None"
           LegacyRaise(w)
       ELSE IF f.kind = "none" THEN
           /\ LegacyNextSymbol(w, "none")
           /\ UNCHANGED <<session, rollbacks>>
       ELSE IF ~f.cols THEN
           \* KeyError of the selection of the columns
           LegacyRaise(w)
       ELSE
           /\ data' = [data EXCEPT ![w] = f]
           /\ pc' = [pc EXCEPT ![w] = "store"]
           /\ UNCHANGED <<idx, reply, to_analyze, store_result, session,
                          rollbacks>>
    /\ UNCHANGED <<assets, price_points, svars, tvars, fvars, dvars, rvars>>

LegacyFetch(w) ==
    \E lookup_ok \in BOOLEAN, f \in FetchResults :
        LegacyFetchFromYahooFinance(w, lookup_ok, f)

\* data.py _fetch_from_yahoo_finance: the storage of the bars
LegacyStore(w) ==
    /\ pc[w] = "store"
    /\ \E ok \in BOOLEAN, k \in 0..MaxDate :
        LET asset_id == AssetId(Symbol(w))
            all == [session[w] EXCEPT
                       !.prices = @ (+) RowsOf(asset_id, data[w].rows)]
        IN  IF ok /\ CommitAccepted(all) THEN
                /\ assets' = LegacyCommittedAssets(all)
                /\ price_points' = CommittedPrices(all)
                /\ session' = [session EXCEPT ![w] = EmptySession]
                /\ store_result' = [store_result EXCEPT ![w] = "ok"]
                /\ pc' = [pc EXCEPT ![w] = "promote"]
                /\ UNCHANGED <<idx, reply, to_analyze, rollbacks, data>>
            ELSE
                /\ session' = [session EXCEPT ![w] = Rollback(all)]
                /\ rollbacks' = [rollbacks EXCEPT ![w] = @ + 1]
                /\ LegacyNextSymbol(w, "rolled_back")
                /\ UNCHANGED <<assets, price_points>>
    /\ UNCHANGED <<svars, tvars, fvars, dvars, rvars>>

\* data.py _fetch_from_yahoo_finance: the promotion. Its except prints: a
\* commit that raised leaves the change of status pending in the session.
LegacyPromote(w) ==
    /\ pc[w] = "promote"
    /\ \E outcome \in {"ok", "query", "commit"} :
        LET changed == [session[w] EXCEPT
                           !.dirty = @ \cup {AssetId(Symbol(w))}]
        IN  IF outcome = "ok" /\ CommitAccepted(changed) THEN
                /\ assets' = LegacyCommittedAssets(changed)
                /\ price_points' = CommittedPrices(changed)
                /\ session' = [session EXCEPT ![w] = EmptySession]
                /\ LegacyNextSymbol(w, "promoted")
            ELSE
                /\ session' = [session EXCEPT ![w] =
                                  IF outcome = "query" THEN @ ELSE changed]
                /\ UNCHANGED <<assets, price_points>>
                /\ LegacyNextSymbol(w, "not_promoted")
    /\ UNCHANGED <<rollbacks, svars, tvars, fvars, dvars, rvars>>

(***************************************************************************)
(* utils/lstm_model.py: train_lstm_model and the window construction       *)
(***************************************************************************)

\* Shapes of the price series the training is run on.
Shapes == {"rising", "flat", "zigzag"}

\* to_numeric(..., errors="coerce") of a value that is no number.
NaN == 0 - 1000

\* Shapes of series that have such a value: in a feature of the first row,
\* in the target column at the row that follows the first window, or in the
\* target column at a row that is the target of no window.
NaNShapes == {"close_gap", "target_gap", "adjusted_gap"}

\* The i-th price row of a series: the feature columns (open, high, low,
\* close, volume) are kept as one, close_price.
PricePoint(shape, i) ==
    CASE shape = "rising" -> [close_price |-> i, adjusted_close |-> i + 1]
      [] shape = "flat"   -> [close_price |-> 1, adjusted_close |-> 1]
      [] shape = "close_gap" ->
             [close_price |-> IF i = 1 THEN NaN ELSE i,
              adjusted_close |-> i + 1]
      [] shape = "target_gap" ->
             [close_price |-> i,
              adjusted_close |-> IF i = sequence_length + 1 THEN NaN
                                 ELSE i + 1]
      [] shape = "adjusted_gap" ->
             [close_price |-> i,
              adjusted_close |-> IF i = 2 THEN NaN ELSE i + 1]
      [] OTHER            -> [close_price |-> 1 + (i % 2),
                              adjusted_close |-> 2 - (i % 2)]

Column(rows, col) == [i \in DOMAIN rows |-> rows[i][col]]

Values(column) == {column[i] : i \in DOMAIN column}

Min(S) == CHOOSE x \in S : \A y \in S : x <= y

Max(S) == CHOOSE x \in S : \A y \in S : x >= y

\* MinMaxScaler.fit_transform of a column: (x - min) / (max - min), kept as
\* <<numerator, denominator>>; a constant column is scaled to 0. The scaler
\* fits on the values that are numbers and leaves a NaN a NaN, 0/0.
MinMaxScale(column) ==
    LET numbers == Values(column) \ {NaN}
    IN  [i \in DOMAIN column |->
            IF column[i] = NaN THEN <<0, 0>>
            ELSE IF Max(numbers) = Min(numbers) THEN <<0, 1>>
            ELSE <<column[i] - Min(numbers), Max(numbers) - Min(numbers)>>]

\* np.isnan of a scaled value
IsNaN(v) == v[2] = 0

\* not (np.isnan(sequence).any() or np.isnan(target))
NotHasNaN(pair) ==
    ~(\/ \E j \in DOMAIN pair.window : IsNaN(pair.window[j])
      \/ IsNaN(pair.target))

ValidSequences_All(pairs) == pairs

\* The pairs appended to X and y: those without a NaN.
ValidSequences(pairs) == SelectSeq(pairs, NotHasNaN)

RECURSIVE Sum(_)
Sum(column) ==
    IF column = <<>> THEN 0 ELSE Head(column) + Sum(Tail(column))

\* (data - np.mean(data)) / np.std(data): with n = len(data) the quotient is
\* (n*x - sum) / sqrt(n*sum(x^2) - sum^2), kept as <<numerator, square of the
\* denominator>>; a constant column gives 0/0, NaN.
Standardize(column) ==
    [i \in DOMAIN column |->
        <<Len(column) * column[i] - Sum(column),
          Len(column) * Sum([j \in DOMAIN column |-> column[j] * column[j]])
              - Sum(column) * Sum(column)>>]

\* The loop over range(len(data) - W): the W values from position i on (i
\* counted from 0, as in the code) and the value that follows them.
RECURSIVE CreateSequences(_, _, _, _)
CreateSequences(features, target, W, i) ==
    IF i >= Len(features) - W THEN <<>>
    ELSE <<[window |-> SubSeq(features, i + 1, i + W),
            target |-> target[i + W + 1]]>>
         \o CreateSequences(features, target, W, i + 1)

\* The lookback values preprocess_lstm_data is called with.
Lookbacks == 1..sequence_length

\* models/lstm_model.py preprocess_lstm_data on the adjusted_close column:
\* the reshape of the result reads x_data.shape[1], which an array without
\* windows does not have.
PreprocessLstmData ==
    /\ train_pc = "start"
    /\ \E lookback \in Lookbacks :
        LET column == Standardize(Column(series, "adjusted_close"))
            pairs == CreateSequences(column, column, lookback, 0)
        IN  /\ window_length' = lookback
            /\ IF pairs = <<>> THEN
                   /\ windows' = <<>>
                   /\ train_exc' = "IndexError"
                   /\ train_pc' = "preprocess_raised"
               ELSE
                   /\ windows' = pairs
                   /\ train_pc' = "preprocessed"
                   /\ UNCHANGED train_exc
    /\ UNCHANGED <<assets, price_points, wvars, svars, fvars, dvars, rvars, series, runs,
                   ai_models, predictions, train_session, train_rollbacks>>

\* train_lstm_model up to the validation of the training data: the queries
\* of the price points and predictions, then _prepare_training_data, whose
\* ValueError leaves train_lstm_model; the return on empty arrays follows it.
TrainPrepare ==
    /\ train_pc = "start"
    /\ window_length' = sequence_length
    /\ IF PrepareTrainingData(Len(series)) = "ValueError" THEN
           /\ windows' = <<>>
           /\ train_exc' = "ValueError"
           /\ train_pc' = "raised"
       ELSE
           LET pairs ==
                 ValidSequences(
                     CreateSequences(
                         MinMaxScale(Column(series, "close_price")),
                         MinMaxScale(Column(series, "adjusted_close")),
                         sequence_length, 0))
           IN  /\ windows' = pairs
               /\ IF pairs = <<>> THEN
                      \* "No valid sequences could be created"
                      /\ train_exc' = "ValueError"
                      /\ train_pc' = "raised"
                  ELSE
                      /\ train_pc' = "prepared"
                      /\ UNCHANGED train_exc
    /\ UNCHANGED <<assets, price_points, wvars, svars, fvars, dvars, rvars, series, runs,
                   ai_models, predictions, train_session, train_rollbacks>>

\* The query of the existing model, the build or load of the model and
\* model.fit: an exception of any of them leaves train_lstm_model.
TrainFit ==
    /\ train_pc = "prepared"
    /\ \E outcome \in {"ok", "query", "fit"} :
        IF outcome = "ok" THEN
            /\ train_pc' = "fitted"
            /\ UNCHANGED train_exc
        ELSE
            /\ train_pc' = "raised"
            /\ train_exc' = outcome
    /\ UNCHANGED <<assets, price_points, wvars, svars, fvars, dvars, rvars, series, window_length,
                   windows, runs, ai_models, predictions, train_session,
                   train_rollbacks>>

\* train_lstm_model(asset_id, db_session): the asset of the call, and another
\* asset that has rows of its own.
TrainedAsset == 1
OtherAsset == 2

\* AIModelsDbTable(asset_id, model_type="LSTM", model_data, last_trained): the
\* number of the call stands for the weights and the timestamp it writes.
ModelRow(asset_id, run) ==
    [asset_id |-> asset_id, model_type |-> "LSTM", model_data |-> run,
     last_trained |-> run]

\* PredictionsDbTable(asset_id, model_id, date, prediction, prediction_type)
PredictionRow(asset_id, model_id, date, value) ==
    [asset_id |-> asset_id, model_id |-> model_id, date |-> date,
     prediction_type |-> "adjusted_close", prediction |-> value]

\* query(AIModelsDbTable).filter_by(asset_id=asset_id).first(): the id of the
\* row, or None.
ExistingModel(rows, asset_id) ==
    IF \E i \in DOMAIN rows : rows[i].asset_id = asset_id
    THEN Min({i \in DOMAIN rows : rows[i].asset_id = asset_id})
    ELSE None

\* if existing_model: the row is overwritten; else a new row is added.
SaveModel_Versioned(rows, asset_id, run) ==
    Append(rows, ModelRow(asset_id, run))

SaveModel(rows, asset_id, run) ==
    IF ExistingModel(rows, asset_id) # None
    THEN [rows EXCEPT ![ExistingModel(rows, asset_id)].model_data = run,
                      ![ExistingModel(rows, asset_id)].last_trained = run]
    ELSE Append(rows, ModelRow(asset_id, run))

\* price_points[-1]["date"] + Timedelta(days=1): the date of a bar is its
\* position in the series.
NextDayDate == Len(series) + 1

\* X[-1], the last of the pairs kept for the training
last_sequence == windows[Len(windows)].window

\* model.predict(last_sequence), inverse-transformed: the value is told by
\* the weights of the run and by the window given to the model.
Prediction(run, sequence) == [weights |-> run, input |-> sequence]

\* query(PredictionsDbTable).filter_by(asset_id, model_id, date).first()
ExistingPrediction(rows, asset_id, model_id, date) ==
    IF \E i \in DOMAIN rows :
          /\ rows[i].asset_id = asset_id
          /\ rows[i].model_id = model_id
          /\ rows[i].date = date
    THEN Min({i \in DOMAIN rows :
                 /\ rows[i].asset_id = asset_id
                 /\ rows[i].model_id = model_id
                 /\ rows[i].date = date})
    ELSE None

\* if existing_prediction: its prediction is overwritten; else a new row is
\* added.
SavePrediction_KeepValue(rows, asset_id, model_id, date, value) ==
    IF ExistingPrediction(rows, asset_id, model_id, date) # None
    THEN rows
    ELSE Append(rows, PredictionRow(asset_id, model_id, date, value))

SavePrediction(rows, asset_id, model_id, date, value) ==
    IF ExistingPrediction(rows, asset_id, model_id, date) # None
    THEN [rows EXCEPT
             ![ExistingPrediction(rows, asset_id, model_id, date)].prediction
                 = value]
    ELSE Append(rows, PredictionRow(asset_id, model_id, date, value))

\* UniqueConstraint("asset_id", "model_id", "date", "prediction_type")
unique_price_prediction(rows) ==
    \A i, j \in DOMAIN rows :
        (/\ rows[i].asset_id = rows[j].asset_id
         /\ rows[i].model_id = rows[j].model_id
         /\ rows[i].date = rows[j].date
         /\ rows[i].prediction_type = rows[j].prediction_type)
        => i = j

\* try: the model row is updated or added and committed; finally removes the
\* temporary file. There is no except clause: an exception of the commit
\* leaves train_lstm_model with the row still staged.
TrainSaveModel ==
    /\ train_pc = "fitted"
    /\ \E committed \in BOOLEAN :
        IF committed THEN
            /\ ai_models' = SaveModel(ai_models, TrainedAsset, runs)
            /\ train_session' = {}
            /\ train_pc' = "model_saved"
            /\ UNCHANGED train_exc
        ELSE
            /\ train_session' = train_session \cup {"ai_models"}
            /\ train_pc' = "raised"
            /\ train_exc' = "commit"
            /\ UNCHANGED ai_models
    /\ UNCHANGED <<assets, price_points, wvars, svars, fvars, dvars, rvars, series, window_length,
                   windows, runs, predictions, train_rollbacks>>

\* Still in the try: the model row is read again, the next-day prediction is
\* updated or added and committed, again without an except clause.
TrainSavePrediction ==
    /\ train_pc = "model_saved"
    /\ \E committed \in BOOLEAN :
        LET saved == SavePrediction(predictions, TrainedAsset,
                                    ExistingModel(ai_models, TrainedAsset),
                                    NextDayDate,
                                    Prediction(runs, last_sequence))
        IN  IF committed /\ unique_price_prediction(saved) THEN
                /\ predictions' = saved
                /\ train_session' = {}
                /\ train_pc' = "returned"
                /\ UNCHANGED train_exc
            ELSE
                /\ train_session' = train_session \cup {"predictions"}
                /\ train_pc' = "raised"
                /\ train_exc' = "commit"
                /\ UNCHANGED predictions
    /\ UNCHANGED <<assets, price_points, wvars, svars, fvars, dvars, rvars, series, window_length,
                   windows, runs, ai_models, train_rollbacks>>

\* _run calls train_lstm_model for the asset again in its next iteration,
\* which it reaches only when the call before has returned; the price
\* history is what it was, or one bar longer.
TrainAgain ==
    /\ train_pc = "returned"
    /\ runs < MaxRuns
    /\ runs' = runs + 1
    /\ train_pc' = "start"
    /\ window_length' = 0
    /\ windows' = <<>>
    /\ \/ UNCHANGED series
       \/ /\ Len(series) < MaxRows
          /\ \E shape \in Shapes :
                series' = Append(series, PricePoint(shape, Len(series) + 1))
    /\ UNCHANGED <<assets, price_points, wvars, svars, fvars, dvars, rvars, ai_models, predictions,
                   train_session, train_rollbacks, train_exc>>

\* No call of train_lstm_model or preprocess_lstm_data is observed.
\* No call of fetch_data.
FetchOff == fetch_call = [pc |-> "off"]

\* No request of a race of two registrations is in flight.
NoRace == received = <<>>

\* No handler asked of the factory yet.
NoHandler == "None"

FactoryOff ==
    /\ handler = NoHandler
    /\ raised = "none"

TrainOff ==
    /\ train_pc = "off"
    /\ series = <<>>
    /\ window_length = 0
    /\ windows = <<>>
    /\ runs = 0
    /\ ai_models = <<>>
    /\ predictions = <<>>
    /\ train_session = {}
    /\ train_rollbacks = 0
    /\ train_exc = "none"

\* The state after construction: empty tables, idle handlers, the updater
\* thread before its loop.
Constructed ==
    /\ assets = <<>>
    /\ price_points = EmptyBag
    /\ pc = [w \in Workers |-> "idle"]
    /\ to_analyze = [w \in Workers |-> <<>>]
    /\ idx = [w \in Workers |-> 0]
    /\ data = [w \in Workers |-> NoData]
    /\ store_result = [w \in Workers |-> "none"]
    /\ response = [w \in Workers |-> 0]
    /\ response_object = [w \in Workers |-> EmptyBody]
    /\ read_queries = [w \in Workers |-> 0]
    /\ rollbacks = [w \in Workers |-> 0]
    /\ session = [w \in Workers |-> EmptySession]
    /\ sched_pc = "loop"
    /\ iterations \in (0..MaxIterations) \cup {None}
    /\ count = 0
    /\ active_assets = <<>>
    /\ sched_idx = 0
    /\ sched_store = "none"
    /\ sched_session = EmptySession
    /\ sched_rollbacks = 0
    /\ sched_calls = NotMocked
    /\ crash_cause = "none"
    /\ caller_pc = "returned"

Init == Constructed /\ TrainOff /\ FactoryOff /\ FetchOff /\ NoRace

\* A call of train_lstm_model, or of preprocess_lstm_data, on a price series
\* of up to MaxRows rows, the tables holding no model or prediction yet, or
\* those of another asset.
TrainInitOver(shapes) ==
    /\ Constructed
    /\ FactoryOff
    /\ FetchOff
    /\ NoRace
    /\ train_pc = "start"
    /\ \E L \in 0..MaxRows, shape \in shapes :
          series = [i \in 1..L |-> PricePoint(shape, i)]
    /\ window_length = 0
    /\ windows = <<>>
    /\ runs = 1
    /\ \/ ai_models = <<>> /\ predictions = <<>>
       \/ /\ ai_models = <<ModelRow(OtherAsset, 0)>>
          /\ \/ predictions = <<>>
             \/ predictions =
                    <<PredictionRow(OtherAsset, 1, Len(series) + 1,
                                    Prediction(0, <<>>))>>
    /\ train_session = {}
    /\ train_rollbacks = 0
    /\ train_exc = "none"

TrainInit == TrainInitOver(Shapes)

TrainNext ==
    \/ PreprocessLstmData
    \/ TrainPrepare
    \/ TrainFit
    \/ TrainSaveModel
    \/ TrainSavePrediction
    \/ TrainAgain

TrainSpec == TrainInit /\ [][TrainNext]_vars

\* A call of train_lstm_model on a price series that may hold values that
\* are no numbers.
WindowInit == TrainInitOver(Shapes \cup NaNShapes)

WindowNext ==
    \/ TrainPrepare
    \/ TrainFit
    \/ TrainSaveModel
    \/ TrainSavePrediction

WindowSpec == WindowInit /\ [][WindowNext]_vars

\* The request handlers alone, the updater thread not started.
ApiNext ==
    \/ \E w \in Workers : Process(w)
    \/ \E w \in Workers : ProcessCommit(w)
    \/ \E w \in Workers : Return(w)
    \/ \E w \in Workers : IngestFetch(w)
    \/ \E w \in Workers : IngestStore(w)
    \/ \E w \in Workers : IngestPromote(w)
    \/ \E w \in Workers : SymbolsProcess(w)
    \/ \E w \in Workers : DataProcess(w)

ApiSpec == Init /\ [][ApiNext]_vars

\* The batches of new symbols post_request hands to the ingestion.
RECURSIVE Batches(_)
Batches(n) ==
    IF n = 0 THEN {<<>>}
    ELSE Batches(n - 1)
         \cup {Append(b, x) : b \in {c \in Batches(n - 1) : Len(c) = n - 1},
                              x \in Symbols}

\* post_request has committed the registration of a batch of new symbols and
\* calls analyze_symbols_from_list.
LegacyInit ==
    /\ \E batch \in {b \in Batches(MaxLen) :
                        /\ b # <<>>
                        /\ \A i, j \in DOMAIN b : b[i] = b[j] => i = j} :
          /\ assets = InsertAssets(<<>>, batch)
          /\ to_analyze = [w \in Workers |-> batch]
    /\ price_points = EmptyBag
    /\ pc = [w \in Workers |-> "fetch"]
    /\ idx = [w \in Workers |-> 1]
    /\ data = [w \in Workers |-> NoData]
    /\ store_result = [w \in Workers |-> "none"]
    /\ response = [w \in Workers |-> 0]
    /\ response_object = [w \in Workers |-> EmptyBody]
    /\ read_queries = [w \in Workers |-> 0]
    /\ rollbacks = [w \in Workers |-> 0]
    /\ session = [w \in Workers |-> EmptySession]
    /\ sched_pc = "unstarted"
    /\ iterations = None
    /\ count = 0
    /\ active_assets = <<>>
    /\ sched_idx = 0
    /\ sched_store = "none"
    /\ sched_session = EmptySession
    /\ sched_rollbacks = 0
    /\ sched_calls = NotMocked
    /\ crash_cause = "none"
    /\ caller_pc = "returned"
    /\ TrainOff
    /\ FactoryOff
    /\ FetchOff
    /\ NoRace

LegacyNext ==
    \/ \E w \in Workers : LegacyFetch(w)
    \/ \E w \in Workers : LegacyStore(w)
    \/ \E w \in Workers : LegacyPromote(w)

LegacySpec == LegacyInit /\ [][LegacyNext]_vars

(***************************************************************************)
(* utils/request_handlers.py: RequestHandlerFactory                        *)
(***************************************************************************)

\* The names of the three endpoints, and names that are none of them.
KnownEndpoints ==
    {"API_ENDPOINT_SYMBOLS", "API_ENDPOINT_APPEND", "API_ENDPOINT_DATA"}
EndpointNames == KnownEndpoints \cup {"oawihergpa9ehr0wf0few", ""}

handlerTypeDict ==
    [e \in KnownEndpoints |->
        IF e = "API_ENDPOINT_SYMBOLS" THEN "_SymbolsHandler"
        ELSE IF e = "API_ENDPOINT_APPEND" THEN "_AppendHandler"
        ELSE "_DataHandler"]

\* The classes that keep an abstract method: BaseRequestHandler, an ABC
\* whose process is an abstractmethod.
AbstractClasses == {"BaseRequestHandler"}

\* The parameters of BaseRequestHandler.__init__ besides self.
InitParameters == 2

Instantiate_Unchecked(cls, nargs) == [raised |-> "none", handler |-> cls]

\* cls(...) with nargs arguments: a class with an abstract method, or an
\* __init__ that misses an argument, raises TypeError.
Instantiate(cls, nargs) ==
    IF cls \in AbstractClasses \/ nargs # InitParameters
    THEN [raised |-> "TypeError", handler |-> NoHandler]
    ELSE [raised |-> "none", handler |-> cls]

\* RequestHandlerFactory.create_handler: what it returns or raises.
create_handler(end_point) ==
    LET attempt ==
            IF end_point \in DOMAIN handlerTypeDict
            THEN Instantiate(handlerTypeDict[end_point], InitParameters)
            ELSE [raised |-> "KeyError", handler |-> NoHandler]
    IN  IF attempt.raised = "none" THEN attempt
        ELSE Instantiate("BaseRequestHandler", 0)

CreateHandler(end_point) ==
    /\ handler = NoHandler
    /\ raised = "none"
    /\ handler' = create_handler(end_point).handler
    /\ raised' = create_handler(end_point).raised
    /\ UNCHANGED <<assets, price_points, wvars, svars, tvars, dvars, rvars>>

Create == \E end_point \in EndpointNames : CreateHandler(end_point)

\* The handler the factory returned processes the requests.
FactoryNext ==
    \/ Create
    \/ /\ handler = "_AppendHandler"
       /\ \/ \E w \in Workers : Process(w)
          \/ \E w \in Workers : ProcessCommit(w)
          \/ \E w \in Workers : IngestFetch(w)
          \/ \E w \in Workers : IngestStore(w)
          \/ \E w \in Workers : IngestPromote(w)
    \/ /\ handler = "_SymbolsHandler"
       /\ \E w \in Workers : SymbolsProcess(w)
    \/ /\ handler = "_DataHandler"
       /\ \E w \in Workers : DataProcess(w)
    \/ /\ handler # NoHandler
       /\ \E w \in Workers : Return(w)

FactorySpec == Init /\ [][FactoryNext]_vars

(***************************************************************************)
(* utils/data.py: fetch_data                                               *)
(***************************************************************************)

\* The default "" of start_date and end_date: the date is omitted.
Omitted == 0

\* APISourceEnum
ApiSources == {"YAHOO_FINANCE", "ALPHA_VANTAGE"}

\* What fetch_data returns: None, or the frame of the bars of some dates.
NoFrame == [kind |-> "none", rows |-> {}]
Frame(D) == [kind |-> "frame", rows |-> D]

\* The test that chooses the fetch of the whole history.
FetchesAll(start_date, end_date) ==
    start_date = Omitted \/ end_date = Omitted

\* fetch_data over a provider that has the bars of the dates in history and
\* answers (provider_ok) or raises: the fetch made, "max" for the whole
\* history and "range" for the bars between the two dates, and the value
\* returned. yf.download(start=, end=) leaves the end date out; the filter
\* of the Alpha Vantage branch keeps it, and returns None for no bar.
fetch_data(start_date, end_date, source, history, provider_ok) ==
    LET mode == IF FetchesAll(start_date, end_date) THEN "max" ELSE "range"
    IN  IF ~provider_ok THEN [mode |-> mode, result |-> NoFrame]
        ELSE IF mode = "max" THEN [mode |-> mode, result |-> Frame(history)]
        ELSE IF source = "YAHOO_FINANCE" THEN
            [mode |-> mode,
             result |-> Frame({d \in history :
                                  d >= start_date /\ d < end_date})]
        ELSE
            LET kept == {d \in history : d >= start_date /\ d <= end_date}
            IN  [mode |-> mode,
                 result |-> IF kept = {} THEN NoFrame ELSE Frame(kept)]

FetchData ==
    /\ fetch_call.pc = "called"
    /\ \E history \in SUBSET Dates, provider_ok \in BOOLEAN :
          LET r == fetch_data(fetch_call.start_date, fetch_call.end_date,
                              fetch_call.source, history, provider_ok)
          IN  fetch_call' = [fetch_call EXCEPT !.pc = "returned",
                                               !.mode = r.mode,
                                               !.result = r.result]
    /\ UNCHANGED <<assets, price_points, wvars, svars, tvars, fvars, rvars>>

\* A call of fetch_data with some arguments.
FetchInit ==
    /\ Constructed
    /\ TrainOff
    /\ FactoryOff
    /\ NoRace
    /\ fetch_call \in [pc : {"called"},
                       asset_symbol : Symbols,
                       start_date : Dates \cup {Omitted},
                       end_date : Dates \cup {Omitted},
                       source : ApiSources,
                       mode : {"none"},
                       result : {NoFrame}]

FetchNext == FetchData

FetchSpec == FetchInit /\ [][FetchNext]_vars

Next ==
    \/ \E w \in Workers : Process(w)
    \/ \E w \in Workers : ProcessCommit(w)
    \/ \E w \in Workers : Return(w)
    \/ \E w \in Workers : IngestFetch(w)
    \/ \E w \in Workers : IngestStore(w)
    \/ \E w \in Workers : IngestPromote(w)
    \/ SchedIterate
    \/ SchedExit
    \/ SchedSleep
    \/ SchedFetch
    \/ SchedTrain

Spec == Init /\ [][Next]_vars

\* The dates of a history of L bars that ends with the first day of the
\* window of the incremental fetch, yesterday.
HistoryDates(L) == (2 - L)..1

\* The updater thread over a store of active assets that have a history, of
\* sequence_length bars or of one more, for a bounded number of iterations:
\* no request is served meanwhile.
RefreshInit ==
    /\ \E n \in 1..Cardinality(Symbols),
          L \in {sequence_length, sequence_length + 1} :
          LET symbols == IF n = 1 THEN <<"A">> ELSE <<"A", "B">>
          IN  /\ assets = [i \in 1..n |->
                              [AssetRow(symbols[i]) EXCEPT
                                  !.processing_status = "active",
                                  !.description = "longName"]]
              /\ price_points =
                     SetToBag({PriceRow(i, d) : i \in 1..n,
                                               d \in HistoryDates(L)})
    /\ pc = [w \in Workers |-> "idle"]
    /\ to_analyze = [w \in Workers |-> <<>>]
    /\ idx = [w \in Workers |-> 0]
    /\ data = [w \in Workers |-> NoData]
    /\ store_result = [w \in Workers |-> "none"]
    /\ response = [w \in Workers |-> 0]
    /\ response_object = [w \in Workers |-> EmptyBody]
    /\ read_queries = [w \in Workers |-> 0]
    /\ rollbacks = [w \in Workers |-> 0]
    /\ session = [w \in Workers |-> EmptySession]
    /\ sched_pc = "loop"
    /\ iterations \in 0..MaxIterations
    /\ count = 0
    /\ active_assets = <<>>
    /\ sched_idx = 0
    /\ sched_store = "none"
    /\ sched_session = EmptySession
    /\ sched_rollbacks = 0
    /\ sched_calls = NoCalls
    /\ crash_cause = "none"
    /\ caller_pc = "returned"
    /\ TrainOff
    /\ FactoryOff
    /\ FetchOff
    /\ NoRace

RefreshNext ==
    \/ SchedIterate
    \/ SchedExit
    \/ SchedSleep
    \/ SchedFetch
    \/ SchedTrain

RefreshSpec == RefreshInit /\ [][RefreshNext]_vars

\* Two registrations in flight at once: every request is served by a thread
\* of its own, with its own session and its own handler, on the one
\* database. Each worker has received a list of symbols and serves it.
RaceWorkers == {"w1", "w2"}

RaceInit ==
    /\ assets = <<>>
    /\ price_points = EmptyBag
    /\ pc = [w \in RaceWorkers |-> "idle"]
    /\ to_analyze = [w \in RaceWorkers |-> <<>>]
    /\ idx = [w \in RaceWorkers |-> 0]
    /\ data = [w \in RaceWorkers |-> NoData]
    /\ store_result = [w \in RaceWorkers |-> "none"]
    /\ response = [w \in RaceWorkers |-> 0]
    /\ response_object = [w \in RaceWorkers |-> EmptyBody]
    /\ read_queries = [w \in RaceWorkers |-> 0]
    /\ rollbacks = [w \in RaceWorkers |-> 0]
    /\ session = [w \in RaceWorkers |-> EmptySession]
    /\ sched_pc = "unstarted"
    /\ iterations = None
    /\ count = 0
    /\ active_assets = <<>>
    /\ sched_idx = 0
    /\ sched_store = "none"
    /\ sched_session = EmptySession
    /\ sched_rollbacks = 0
    /\ sched_calls = NotMocked
    /\ crash_cause = "none"
    /\ caller_pc = "returned"
    /\ TrainOff
    /\ FactoryOff
    /\ FetchOff
    /\ received \in [RaceWorkers -> Batches(MaxLen) \ {<<>>}]

\* The worker serves the POST it has received.
RaceProcess(w) ==
    ProcessRequest(w, [method |-> "POST", body |-> received[w]])

RaceNext ==
    \/ \E w \in RaceWorkers : RaceProcess(w)
    \/ \E w \in RaceWorkers : ProcessCommit(w)
    \/ \E w \in RaceWorkers : IngestFetch(w)
    \/ \E w \in RaceWorkers : IngestStore(w)
    \/ \E w \in RaceWorkers : IngestPromote(w)

RaceSpec == RaceInit /\ [][RaceNext]_vars

\* The steps of the updater thread, which the operating system keeps
\* scheduling: a call that neither returns nor raises is not modelled.
SchedStep ==
    SchedIterate \/ SchedExit \/ SchedSleep \/ SchedFetch \/ SchedTrain

FairSpec == Spec /\ WF_vars(SchedStep)

\* _BaseParallelTask.__init__: threading.Thread(target=self._run), daemon,
\* start(). start() returns at once; _run begins on the new thread.
StartThread_RunInline ==
    /\ sched_pc' = "loop"
    /\ UNCHANGED caller_pc

StartThread ==
    /\ sched_pc' = "loop"
    /\ caller_pc' = "returned"

\* DataAndModelUpdater(db_session, flask_app, iterations)
ConstructTask ==
    /\ caller_pc = "init"
    /\ sched_pc = "unstarted"
    /\ StartThread
    /\ UNCHANGED <<assets, price_points, wvars, tvars, fvars, dvars, rvars, iterations, count,
                   active_assets, sched_idx, sched_store, sched_session,
                   sched_rollbacks, sched_calls, crash_cause>>

\* What the caller and the updater thread do once the constructor has
\* returned.
Serve == caller_pc = "returned" /\ Next

\* Before the construction: the caller is about to construct the updater.
StartInit ==
    /\ assets = <<>>
    /\ price_points = EmptyBag
    /\ pc = [w \in Workers |-> "idle"]
    /\ to_analyze = [w \in Workers |-> <<>>]
    /\ idx = [w \in Workers |-> 0]
    /\ data = [w \in Workers |-> NoData]
    /\ store_result = [w \in Workers |-> "none"]
    /\ response = [w \in Workers |-> 0]
    /\ response_object = [w \in Workers |-> EmptyBody]
    /\ read_queries = [w \in Workers |-> 0]
    /\ rollbacks = [w \in Workers |-> 0]
    /\ session = [w \in Workers |-> EmptySession]
    /\ sched_pc = "unstarted"
    /\ iterations \in (0..MaxIterations) \cup {None}
    /\ count = 0
    /\ active_assets = <<>>
    /\ sched_idx = 0
    /\ sched_store = "none"
    /\ sched_session = EmptySession
    /\ sched_rollbacks = 0
    /\ sched_calls = NotMocked
    /\ crash_cause = "none"
    /\ caller_pc = "init"
    /\ TrainOff
    /\ FactoryOff
    /\ FetchOff
    /\ NoRace

StartNext == ConstructTask \/ Serve

StartSpec == StartInit /\ [][StartNext]_vars

TypeOK ==
    /\ \A i \in DOMAIN assets :
        assets[i].processing_status \in {"pending", "active"}
    /\ \A w \in Workers : pc[w] \in {"idle", "commit", "fetch", "store", "promote", "done"}
    /\ sched_pc \in {"loop", "fetch", "train", "sleep", "exited", "crashed"}

\* ---------------------------------------------------------------- claims
Pending(i) == assets[i].processing_status = "pending"
Active(i) == assets[i].processing_status = "active"

\* C1: an exception raised by the incremental ingestion or by
\* train_lstm_model for one asset is caught: it never ends the scheduler
\* thread.
C1_FailureNeverEndsLoop ==
    ~(sched_pc = "crashed" /\ crash_cause \in {"ingest", "train"})

\* C2: in every reachable state an asset is active if and only if at least
\* one price row is committed for it.
C2_ActiveIffHasPrice ==
    \A i \in DOMAIN assets : Active(i) <=> HasPrice(i)

\* The registration-triggered ingestion of the symbol is over.
IngestionOver(symbol) ==
    \A w \in Workers :
        pc[w] \in {"fetch", "store", "promote"} =>
            \A j \in idx[w]..Len(to_analyze[w]) : to_analyze[w][j] # symbol

\* C3: an asset still pending after its registration-triggered ingestion is
\* processed by the next scheduler iteration: it is in the snapshot of assets
\* that the iteration ingests.
C3_PendingRetried ==
    [][(sched_pc = "loop" /\ sched_pc' \in {"fetch", "sleep"}) =>
          \A i \in DOMAIN assets :
              (Pending(i) /\ IngestionOver(assets[i].symbol)) =>
                  \E j \in DOMAIN active_assets' : active_assets'[j].id = i]_vars

\* The POSTs of a list that holds an element that is not a string.
NonStringRequests ==
    {r \in Requests :
        r.method = "POST" /\ IsList(r.body) /\ HasNonString(r.body)}

\* C4: a POST whose list holds an element that is not a string, at any
\* position, answers 400, calls rollback once, leaves nothing staged in the
\* session and commits no asset row.
C4_NonStringVoidsBatch ==
    [][\A w \in Workers :
          (/\ pc[w] = "idle"
           /\ pc'[w] # "idle"
           /\ \E r \in NonStringRequests : ProcessRequest(w, r))
          => (/\ pc'[w] = "done"
              /\ response'[w] = 400
              /\ rollbacks'[w] = 1
              /\ session'[w] = EmptySession
              /\ assets' = assets)]_vars

\* A list with an element that is not a string has been answered: of the
\* ways to 400, this one only calls rollback.
C4_Witness ==
    \E w \in Workers :
        /\ pc[w] = "done"
        /\ response[w] = 400
        /\ rollbacks[w] = 1
        /\ session[w] = EmptySession

\* The POSTs of a list of strings that are all registered already.
RegisteredRequests ==
    {[method |-> "POST", body |-> b] :
        b \in UNION {[1..n -> SymbolsOf(assets)] : n \in 1..MaxLen}}

\* C5: the registry never holds two rows of one symbol, and a POST of
\* symbols that are all registered stages no row, schedules no ingestion and
\* changes no asset row, at its validation and at its commit.
C5_RegisterIdempotent ==
    /\ [](\A i, j \in DOMAIN assets :
             assets[i].symbol = assets[j].symbol => i = j)
    /\ [][\A w \in Workers :
             /\ (/\ pc[w] = "idle"
                 /\ pc'[w] # "idle"
                 /\ \E r \in RegisteredRequests : ProcessRequest(w, r))
                => (/\ pc'[w] = "commit"
                    /\ session'[w] = EmptySession
                    /\ to_analyze'[w] = <<>>
                    /\ assets' = assets)
             /\ (/\ pc[w] = "commit"
                 /\ pc'[w] # "commit"
                 /\ session[w] = EmptySession)
                => (assets' = assets /\ pc'[w] = "done")]_vars

\* Both symbols are registered and a POST of registered symbols only has
\* been validated: nothing is staged and nothing is to be ingested.
C5_Witness ==
    \E w \in Workers :
        /\ pc[w] = "commit"
        /\ session[w] = EmptySession
        /\ to_analyze[w] = <<>>
        /\ Len(assets) = 2

\* C6: the price store never holds two committed rows with the same
\* (asset_id, date, source), whatever runs ingested them and however the runs
\* interleave; a bar set ingested a second time leaves one row per key.
C6_UniquePricePoint ==
    \A r \in BagToSet(price_points) : CopiesIn(r, price_points) = 1

\* The scheduler has ingested again bars of an asset whose bars of every
\* date are stored.
C6_Witness ==
    /\ sched_pc = "train"
    /\ sched_store = "integrity"
    /\ \A d \in Dates :
          CopiesIn(PriceRow(active_assets[sched_idx].id, d), price_points) = 1

\* The frame is well formed and holds a bar of the asset that is stored and a
\* bar that is not.
MixedBatch(f) ==
    LET asset_id == active_assets[sched_idx].id
    IN  /\ f.kind = "frame"
        /\ f.cols
        /\ \E d \in f.rows : BagIn(PriceRow(asset_id, d), price_points)
        /\ \E d \in f.rows : ~BagIn(PriceRow(asset_id, d), price_points)

\* C7: when a batch holds a bar that is stored already and bars that are
\* not, only the conflicting bar is skipped: the new bars of the batch are
\* committed.
C7_OnlyConflictingBarSkipped ==
    [][sched_pc = "fetch" =>
          \A f \in FetchResults, k \in 0..MaxDate :
              (MixedBatch(f) /\ FetchFromYfinance(f, TRUE, k))
              => \A d \in f.rows :
                     BagIn(PriceRow(active_assets[sched_idx].id, d),
                           price_points')]_vars

\* None, or a frame with zero rows.
EmptyResult(f) == f.kind = "none" \/ (f.kind = "frame" /\ f.rows = {})

\* C8: first-time and incremental ingestion treat an empty fetch result as
\* done: the run ends there without an exception, and no step of a run whose
\* fetch result was empty changes the price store or the assets.
C8_EmptyFetchIsDone ==
    [][/\ \A w \in Workers :
            /\ pc[w] = "fetch" =>
                  \A f \in FetchResults :
                      (EmptyResult(f) /\ FetchFromYahooFinance(w, TRUE, f))
                      => (/\ pc'[w] \in {"fetch", "done"}
                          /\ pc'[w] = "done" => response'[w] = 204
                          /\ UNCHANGED <<assets, price_points>>)
            /\ (pc[w] \in {"store", "promote"} /\ pc'[w] # pc[w]
                  /\ EmptyResult(data[w]))
               => UNCHANGED <<assets, price_points>>
       /\ sched_pc = "fetch" =>
             \A f \in FetchResults, ok \in BOOLEAN, k \in 0..MaxDate :
                 (EmptyResult(f) /\ FetchFromYfinance(f, ok, k))
                 => (/\ sched_pc' = "train"
                     /\ sched_store' = "none"
                     /\ UNCHANGED <<assets, price_points>>)]_vars

\* The processing_status of some asset row changes in the step.
StatusChanges ==
    \E i \in DOMAIN assets :
        assets'[i].processing_status # assets[i].processing_status

\* C9: within one ingestion run, promotion is attempted only after the bar
\* storage of the run has committed; a run whose bar storage fails ends
\* there, without promotion and without a change of the assets.
C9_StoreBeforePromote ==
    [][/\ \A w \in Workers :
            /\ pc'[w] = "promote" =>
                 (/\ store_result'[w] = "ok"
                  /\ \A d \in data'[w].rows :
                        BagIn(PriceRow(AssetId(Symbol(w)), d), price_points'))
            /\ (pc[w] = "store" /\ pc'[w] # "store" /\ store_result'[w] # "ok")
               => (pc'[w] # "promote" /\ assets' = assets)
       /\ StatusChanges =>
            \E w \in Workers : pc[w] = "promote" /\ store_result[w] = "ok"]_vars

\* The bar storage of the first symbol of a batch has failed: the worker is
\* at the second symbol, the first is pending and has no price row.
C9_Witness ==
    \E w \in Workers :
        /\ pc[w] = "fetch"
        /\ idx[w] = 2
        /\ store_result[w] = "rolled_back"
        /\ Pending(AssetId(to_analyze[w][1]))
        /\ ~HasPrice(AssetId(to_analyze[w][1]))

\* C10: the bar storage of a run is all or nothing: when it fails, rollback
\* is called, nothing the run staged stays in the session, and the committed
\* price store is what it was before the run.
C10_StoreAllOrNothing ==
    /\ [](/\ \A w \in Workers : session[w].prices = EmptyBag
          /\ sched_session.prices = EmptyBag)
    /\ [][/\ \A w \in Workers :
               (pc[w] = "store" /\ pc'[w] # "store" /\ store_result'[w] # "ok")
               => (/\ price_points' = price_points
                   /\ session'[w] = EmptySession
                   /\ rollbacks'[w] = rollbacks[w] + 1)
          /\ (sched_pc = "fetch" /\ sched_store' \in {"integrity", "error"})
               => (/\ price_points' = price_points
                   /\ sched_session' = EmptySession
                   /\ sched_rollbacks' = sched_rollbacks + 1)]_vars

\* A bar storage of the scheduler has failed on an exception that is not a
\* conflict: rollback was called, nothing is staged, and the bars the asset
\* had before the run are in the store.
C10_Witness ==
    /\ sched_pc = "train"
    /\ sched_store = "error"
    /\ sched_rollbacks = 1
    /\ sched_session = EmptySession
    /\ HasPrice(active_assets[sched_idx].id)

\* C11: a failure in the promotion step of first-time ingestion (metadata,
\* status update or its commit) removes no price row: every bar the run
\* committed is in the price store after the rollback of the promotion.
C11_PromotionFailureKeepsBars ==
    [][\A w \in Workers :
          (/\ pc[w] = "promote"
           /\ pc'[w] # "promote"
           /\ assets'[AssetId(Symbol(w))].processing_status = "pending")
          => (/\ price_points' = price_points
              /\ \A d \in data[w].rows :
                    CopiesIn(PriceRow(AssetId(Symbol(w)), d), price_points') = 1)]_vars

\* The promotion of the first symbol of a batch has failed after its bars of
\* every date were committed: the asset is pending and has all its bars.
C11_Witness ==
    \E w \in Workers :
        /\ pc[w] = "fetch"
        /\ idx[w] = 2
        /\ store_result[w] = "not_promoted"
        /\ Pending(AssetId(to_analyze[w][1]))
        /\ NumPrices(AssetId(to_analyze[w][1])) = MaxDate

\* C12: when the registration commit of a POST succeeds, the ingestion of the
\* new symbols is another thread's work: the handler returns its response at
\* once, it does not run the ingestion before it returns.
C12_IngestionDetached ==
    [][\A w \in Workers :
          (pc[w] = "commit" /\ pc'[w] # "commit" /\ response'[w] # 500)
          => (pc'[w] = "done" /\ response'[w] = 204)]_vars

\* C13: once the registration commit has succeeded the response is the
\* success response whatever the ingestion does: no step of the ingestion
\* ends the request with another status than 204.
C13_IngestionNeverFailsRequest ==
    [][\A w \in Workers :
          (pc[w] \in {"fetch", "store", "promote"} /\ pc'[w] = "done")
          => response'[w] = 204]_vars

\* C14: in the ingestion of a batch, the run of a symbol that is not the
\* last of the batch never ends the batch: whatever step of the run fails
\* (lookup, fetch, normalization, bar storage, promotion), the worker goes on
\* to the following symbol.
C14_FailureKeepsBatchGoing ==
    [][\A w \in Workers :
          (/\ pc[w] \in {"fetch", "store", "promote"}
           /\ idx[w] < Len(to_analyze[w]))
          => pc'[w] \in {"fetch", "store", "promote"}]_vars

FeatureColumn ==
    IF train_pc \in {"preprocessed", "preprocess_raised"}
    THEN Standardize(Column(series, "adjusted_close"))
    ELSE MinMaxScale(Column(series, "close_price"))

TargetColumn ==
    IF train_pc \in {"preprocessed", "preprocess_raised"}
    THEN Standardize(Column(series, "adjusted_close"))
    ELSE MinMaxScale(Column(series, "adjusted_close"))

\* C19: on a series of length L and a window length W the window
\* construction ends without an exception and yields exactly max(0, L - W)
\* pairs; the k-th window is the W rows from row k on, in order, and its
\* target is the normalized adjusted_close of the row that follows them.
C19_WindowsAndTargets ==
    train_pc \notin {"off", "start"}
    => (/\ train_exc \notin {"ValueError", "IndexError"}
        /\ Len(windows) = Max({0, Len(series) - window_length})
        /\ \A k \in DOMAIN windows :
              /\ windows[k].window =
                     [j \in 1..window_length |-> FeatureColumn[k + j - 1]]
              /\ windows[k].target = TargetColumn[k + window_length])

\* C20: on a price history of at most sequence_length rows train_lstm_model
\* is a no-op: it returns without an exception and changes neither the
\* model rows, nor the prediction rows, nor the session.
C20_ShortHistoryIsNoOp ==
    [][(/\ TrainPrepare
        /\ Len(series) <= sequence_length)
       => (/\ train_pc' = "returned"
           /\ train_exc' = "none"
           /\ UNCHANGED <<ai_models, predictions, train_session>>)]_vars

\* C18: registration creates the asset row as pending, and its status
\* changes only in the promotion of its own first ingestion; when that
\* promotion commits after a fetch of k >= 1 bars, the asset has exactly the
\* k price rows of the fetch, is active and has a description.
C18_FirstIngestion ==
    [][/\ \A i \in DOMAIN assets' \ DOMAIN assets :
             assets'[i].processing_status = "pending"
       /\ \A i \in DOMAIN assets :
             assets'[i].processing_status # assets[i].processing_status
             => \E w \in Workers :
                   /\ pc[w] = "promote"
                   /\ AssetId(Symbol(w)) = i
                   /\ assets[i].processing_status = "pending"
       /\ \A w \in Workers :
             (pc[w] = "promote" /\ data[w].rows # {} /\ assets' # assets)
             => (/\ assets'[AssetId(Symbol(w))].processing_status = "active"
                 /\ assets'[AssetId(Symbol(w))].description # "null"
                 /\ \A d \in Dates :
                       CopiesIn(PriceRow(AssetId(Symbol(w)), d), price_points')
                       = IF d \in data[w].rows THEN 1 ELSE 0)]_vars

\* A registration of one new symbol has returned 204 after an ingestion of
\* MaxDate bars, the updater thread not having run: the asset is active,
\* described and has MaxDate price rows.
C18_Witness ==
    /\ sched_pc = "loop"
    /\ count = 0
    /\ Len(assets) = 1
    /\ Active(1)
    /\ assets[1].description = "longName"
    /\ NumPrices(1) = MaxDate
    /\ \E w \in Workers : pc[w] = "done" /\ response[w] = 204

\* C16: a persistence exception of a synchronous endpoint yields 500 with a
\* string under the key error and exactly one rollback for the request: the
\* registration leaves its commit either with the staged rows committed or
\* so, and the data endpoint ends so when its query raises.
C16_PersistenceExceptionIs500 ==
    [][\A w \in Workers :
          /\ (pc[w] = "commit" /\ pc'[w] # "commit")
             => \/ /\ assets' = CommittedAssets(session[w])
                   /\ response'[w] # 500
                \/ /\ response'[w] = 500
                   /\ response_object'[w] = ErrorBody
                   /\ rollbacks'[w] = 1
                   /\ assets' = assets
          /\ pc[w] = "idle"
             => \/ response'[w] = 400
                \/ /\ response'[w] = 500
                   /\ response_object'[w] = ErrorBody
                   /\ rollbacks'[w] = 1
                   /\ session'[w] = EmptySession
                \* or the step is none of the data handler with a query
                \* that raises
                \/ \A r \in DataRequests :
                       ~DataHandlerProcess(w, "GET", r, TRUE)]_vars

\* The data endpoint has answered 500 to a request for the bars of an asset
\* that has bars: its query has raised.
C16_Witness ==
    \E w \in Workers :
        /\ pc[w] = "done"
        /\ response[w] = 500
        /\ response_object[w] = ErrorBody
        /\ read_queries[w] = 1
        /\ rollbacks[w] = 1
        /\ \E i \in DOMAIN assets : NumPrices(i) = MaxDate

\* C17: GET on the symbols handler returns 200 and the symbols of exactly
\* the active assets, each once, with one query; any other method returns
\* ({}, 204) without a query.
C17_SymbolsAreTheActiveAssets ==
    [][\A w \in Workers :
          pc[w] = "idle"
          => \A method \in RestMethods :
                SymbolsHandlerProcess(w, method)
                => IF method = "GET" THEN
                       /\ response'[w] = 200
                       /\ response_object'[w].kind = "symbols"
                       /\ {response_object'[w].symbols[i] :
                              i \in DOMAIN response_object'[w].symbols}
                          = {assets[i].symbol :
                              i \in {j \in DOMAIN assets : Active(j)}}
                       /\ Len(response_object'[w].symbols)
                          = Cardinality({j \in DOMAIN assets : Active(j)})
                       /\ read_queries'[w] = 1
                   ELSE
                       /\ response'[w] = 204
                       /\ response_object'[w] = EmptyBody
                       /\ read_queries'[w] = 0]_vars

\* GET symbols has listed the one active asset of two, the other pending.
C17_Witness ==
    \E w \in Workers :
        /\ pc[w] = "done"
        /\ response[w] = 200
        /\ response_object[w].kind = "symbols"
        /\ Len(response_object[w].symbols) = 1
        /\ Len(assets) = 2
        /\ \E i \in DOMAIN assets : Pending(i)

\* The ids of the prediction rows of the asset of the call for its model and
\* the day after the last bar.
NextDayPredictions(rows) ==
    {i \in DOMAIN rows :
        /\ rows[i].asset_id = TrainedAsset
        /\ rows[i].model_id = ExistingModel(ai_models, TrainedAsset)
        /\ rows[i].date = NextDayDate
        /\ rows[i].prediction_type = "adjusted_close"}

ModelsOf(rows, asset_id) == {i \in DOMAIN rows : rows[i].asset_id = asset_id}

C23_BoundedLoop ==
    /\ [](iterations # None => count <= iterations)
    /\ [](sched_pc = "exited" => (iterations # None /\ count = iterations))
    /\ [](iterations # None => <>(sched_pc \in {"exited", "crashed"}))

\* The updater thread has left its loop after MaxIterations iterations.
C23_Witness ==
    /\ sched_pc = "exited"
    /\ iterations = MaxIterations
    /\ count = MaxIterations

\* C24: the construction starts _run once, on a thread of its own, and the
\* constructor returns without waiting for it: the loop is never running
\* with the caller still in the constructor, and _run is never started again.
C24_StartedOnceInBackground ==
    /\ [](sched_pc = "unstarted" \/ caller_pc = "returned")
    /\ [][/\ ConstructTask
             => (sched_pc' = "loop" /\ count' = 0 /\ caller_pc' = "returned")
          /\ sched_pc # "unstarted" => sched_pc' # "unstarted"
          /\ (sched_pc' = "loop" /\ sched_pc \notin {"loop", "sleep"})
             => ConstructTask]_vars

\* The caller has gone on to answer a request while the updater thread,
\* constructed without a bound, is in its loop.
C24_Witness ==
    /\ caller_pc = "returned"
    /\ iterations = None
    /\ sched_pc = "sleep"
    /\ \E w \in Workers : pc[w] = "done"

\* A failure of the provider: the download raises or returns nothing.
ProviderFailure(f) == f.kind \in {"raise", "none"}

\* C25: a download that raises or returns nothing ends the run of the symbol
\* without an exception reaching the caller of the ingestion, without a
\* price row added and without a change of the assets; here the ingestion
\* of utils/data.py.
C25_ProviderFailureIsContained ==
    [][\A w \in Workers :
          pc[w] = "fetch"
          => \A f \in FetchResults :
                (ProviderFailure(f) /\ LegacyFetchFromYahooFinance(w, TRUE, f))
                => (/\ response_object'[w] # FailureBody
                    /\ rollbacks'[w] = rollbacks[w]
                    /\ UNCHANGED <<assets, price_points>>)]_vars

\* C26: when the fetch of the metadata fails after the bars of an asset were
\* committed, the asset is still promoted to active, with the placeholder as
\* its description.
C26_MetadataFailureStillPromotes ==
    [][\A w \in Workers :
          (pc[w] = "promote" /\ PromoteWith(w, "raise", TRUE))
          => LET row == assets'[AssetId(Symbol(w))]
             IN  /\ row.processing_status = "active"
                 /\ row.description = "Description not available"]_vars

\* The fields of the request object are all there, each a str.
WellFormed(r) ==
    /\ ~r.is_list
    /\ r.symbol \in Symbols
    /\ r.start_date \in Dates
    /\ r.end_date \in Dates

\* C27: GET on the data handler with well-formed fields, for a symbol that is
\* not registered or has no price row between the two dates, answers 404 or
\* 200 with an empty list of prices, never 500.
C27_NoRowsIsNot500 ==
    [][\A w \in Workers :
          pc[w] = "idle"
          => \A r \in DataRequests :
                (/\ WellFormed(r)
                 /\ JointEntries(r.symbol, r.start_date, r.end_date) = {}
                 /\ DataHandlerProcess(w, "GET", r, FALSE))
                => \/ response'[w] = 404
                   \/ /\ response'[w] = 200
                      /\ response_object'[w].kind = "prices"
                      /\ response_object'[w].prices = {}]_vars

\* C28: GET on the data handler answers 400 with an error string, and sends
\* no query to the store, when the body is a list, when one of symbol,
\* start_date and end_date is missing, or when one of them is not a str.
C28_MalformedDataRequestIs400 ==
    [][\A w \in Workers :
          pc[w] = "idle"
          => \A r \in DataRequests, raises \in BOOLEAN :
                (~WellFormed(r) /\ DataHandlerProcess(w, "GET", r, raises))
                => /\ response'[w] = 400
                   /\ response_object'[w] = ErrorBody
                   /\ read_queries'[w] = read_queries[w]]_vars

\* The call of process by w has returned without a row staged, without a
\* commit and without an ingestion started.
NothingDone(w) ==
    /\ pc'[w] = "done"
    /\ to_analyze'[w] = <<>>
    /\ session'[w] = session[w]
    /\ rollbacks'[w] = rollbacks[w]
    /\ UNCHANGED <<assets, price_points>>

\* C29: POST on the append handler with an empty list or with a body that is
\* not a list answers 400 with an error string, and any other method
\* answers {} with 204; in these cases no asset is staged, nothing is
\* committed and no ingestion starts.
C29_RejectedAppendDoesNothing ==
    [][\A w \in Workers :
          (pc[w] = "idle" /\ pc'[w] # "idle")
          => /\ \A r \in {x \in Requests :
                              /\ x.method = "POST"
                              /\ (x.body = NotAList \/ x.body = <<>>)} :
                   ProcessRequest(w, r)
                   => /\ response'[w] = 400
                      /\ response_object'[w] = ErrorBody
                      /\ NothingDone(w)
             /\ \A r \in {x \in Requests : x.method # "POST"} :
                   ProcessRequest(w, r)
                   => /\ response'[w] = 204
                      /\ response_object'[w] = EmptyBody
                      /\ NothingDone(w)]_vars

\* The append handler has answered 400 without a rollback, that is to an
\* empty list or to a body that is not a list, and nothing is stored.
C29_Witness ==
    \E w \in Workers :
        /\ pc[w] = "done"
        /\ response[w] = 400
        /\ response_object[w] = ErrorBody
        /\ rollbacks[w] = 0
        /\ session[w] = EmptySession
        /\ assets = <<>>

Conflicts(f) ==
    ~CommitAccepted([sched_session EXCEPT
                        !.prices = @ (+) RowsOf(active_assets[sched_idx].id,
                                                f.rows)])

\* C31: when the commit of the bars of an incremental run raises a violation
\* of uniqueness, rollback is called once, nothing of the batch is
\* committed, no exception leaves _fetch_from_yfinance, and the scheduler
\* goes on with the training and, after it, with the next asset.
C31_ConflictIsBenign ==
    [][/\ sched_pc = "fetch"
          => \A f \in FetchResults, k \in 0..MaxDate :
                (/\ IncrementalFetchTarget(f) = "store"
                 /\ Conflicts(f)
                 /\ FetchFromYfinance(f, TRUE, k))
                => /\ sched_rollbacks' = sched_rollbacks + 1
                   /\ sched_session' = EmptySession
                   /\ UNCHANGED <<assets, price_points>>
                   /\ sched_pc' = "train"
                   /\ crash_cause' = crash_cause
       /\ (sched_pc = "train" /\ sched_store = "integrity"
               /\ sched_pc' # "crashed")
          => \/ sched_pc' = "fetch" /\ sched_idx' = sched_idx + 1
             \/ sched_pc' = "sleep" /\ sched_idx = Len(active_assets)
             \/ UNCHANGED svars]_vars

\* The commit of an incremental run has raised the violation of uniqueness
\* and the scheduler is at the training of the asset.
C31_Witness ==
    /\ sched_pc = "train"
    /\ sched_store = "integrity"
    /\ sched_rollbacks >= 1
    /\ sched_session = EmptySession

\* C32: in an iteration with one active asset whose incremental fetch
\* returns k >= 1 bars and whose commit succeeds, the session of the
\* scheduler receives one query, k add calls, one commit and no rollback,
\* the training included.
C32_CallsOfOneIteration ==
    [][Len(active_assets) = 1
       => /\ sched_pc = "fetch"
             => \A f \in FetchResults, k \in 0..MaxDate :
                   (/\ IncrementalFetchTarget(f) = "store"
                    /\ ~Conflicts(f)
                    /\ FetchFromYfinance(f, TRUE, k))
                   => /\ sched_calls' =
                            [query |-> 1, add |-> Cardinality(f.rows),
                             commit |-> 1]
                      /\ sched_rollbacks' = sched_rollbacks
          /\ (sched_pc = "train" /\ sched_store = "ok"
                  /\ sched_pc' # "train")
             => /\ sched_calls' = sched_calls
                /\ sched_rollbacks' = sched_rollbacks]_vars

C34_FullHistoryIffBothOmitted ==
    fetch_call.pc = "returned"
    => (fetch_call.mode = "max"
        <=> (fetch_call.start_date = Omitted
             /\ fetch_call.end_date = Omitted))

\* The W most recent rows of the feature column: the window that ends at the
\* last stored bar.
MostRecentWindow ==
    [j \in 1..sequence_length |->
        FeatureColumn[Len(series) - sequence_length + j]]

CandidatePairs ==
    [k \in 1..(IF Len(series) > sequence_length
               THEN Len(series) - sequence_length ELSE 0) |->
        [window |-> [j \in 1..sequence_length |-> FeatureColumn[k + j - 1]],
         target |-> TargetColumn[k + sequence_length]]]

\* A pair with a value that is no number, among its feature rows or as its
\* target.
NonFinite(pair) ==
    \/ pair.target = <<0, 0>>
    \/ \E j \in DOMAIN pair.window : pair.window[j] = <<0, 0>>

FinitePairs == {k \in DOMAIN CandidatePairs : ~NonFinite(CandidatePairs[k])}

\* The n-th of the candidate pairs without such a value.
NthFinite(n) ==
    CHOOSE k \in FinitePairs : Cardinality({m \in FinitePairs : m < k}) = n - 1

\* C36: the training set of a call of train_lstm_model holds no pair with a
\* NaN among its feature rows or as its target, and holds every other pair
\* of the series, in chronological order.
C36_NaNWindowsDropped ==
    train_pc \in {"prepared", "fitted", "model_saved", "returned"}
    => /\ \A n \in DOMAIN windows : ~NonFinite(windows[n])
       /\ Len(windows) = Cardinality(FinitePairs)
       /\ \A n \in DOMAIN windows : windows[n] = CandidatePairs[NthFinite(n)]

\* A training set from which a pair with a NaN was dropped and in which a
\* pair without one was kept.
C36_Witness ==
    /\ train_pc = "fitted"
    /\ windows # <<>>
    /\ Len(windows) < Len(CandidatePairs)
    /\ \E k \in DOMAIN CandidatePairs : NonFinite(CandidatePairs[k])

\* C37: in every step the asset rows that exist stay, with their symbols; a
\* processing_status that changes goes from pending to active, in the
\* promotion step of the ingestion of that asset by a request worker; and a
\* step of the scheduler leaves the asset table as it is.
C37_StatusOnlyPromoted ==
    [][/\ Len(assets') >= Len(assets)
       /\ \A i \in DOMAIN assets :
            /\ assets'[i].symbol = assets[i].symbol
            /\ assets'[i].processing_status # assets[i].processing_status
               => /\ assets[i].processing_status = "pending"
                  /\ assets'[i].processing_status = "active"
                  /\ \E w \in Workers :
                        /\ pc[w] = "promote"
                        /\ i = AssetId(Symbol(w))
       /\ svars' # svars => assets' = assets]_vars

\* An asset was promoted, another one was left pending, and the scheduler
\* has stored a refresh of the active one.
C37_Witness ==
    /\ \E i \in DOMAIN assets : Active(i)
    /\ \E i \in DOMAIN assets : Pending(i)
    /\ sched_store = "ok"
    /\ sched_pc = "train"

\* The number of rows of a list that hold the symbol.
Occurrences(symbols, x) == Cardinality({i \in DOMAIN symbols : symbols[i] = x})

RowsWith(rows, x) == Cardinality({i \in DOMAIN rows : rows[i].symbol = x})

\* The symbols a batch holds more than once.
Repeated(batch) == {x \in Symbols : Occurrences(batch, x) > 1}

\* C38: a worker that serves a batch holding a new symbol more than once
\* stages that symbol once and schedules its ingestion once; the unique
\* constraint accepts what it has staged as long as nobody else has
\* registered one of these symbols in between; and its commit, when it
\* stores anything, leaves exactly one row of the symbol and starts the
\* ingestion.
C38_DuplicateInBatchStagedOnce ==
    [][\A w \in RaceWorkers :
         /\ (pc[w] = "idle" /\ pc'[w] # "idle")
            => (/\ pc'[w] = "commit"
                /\ \A x \in Repeated(received[w]) \ SymbolsOf(assets) :
                      /\ Occurrences(session'[w].assets, x) = 1
                      /\ Occurrences(to_analyze'[w], x) = 1)
         /\ (/\ pc[w] = "commit"
             /\ Repeated(received[w]) # {}
             /\ \A i \in DOMAIN session[w].assets :
                   session[w].assets[i] \notin SymbolsOf(assets))
            => (/\ CommitAccepted(session[w])
                /\ (pc'[w] # "commit" /\ assets' # assets)
                   => (/\ \A i \in DOMAIN to_analyze[w] :
                             RowsWith(assets', to_analyze[w][i]) = 1
                       /\ pc'[w] = "fetch"
                       /\ to_analyze'[w] = to_analyze[w]
                       /\ rollbacks'[w] = 0))]_vars

\* A batch that names the new symbol A twice has been committed: one row,
\* one ingestion, no rollback.
C38_Witness ==
    \E w \in RaceWorkers :
        /\ received[w] = <<"A", "A">>
        /\ pc[w] = "fetch"
        /\ to_analyze[w] = <<"A">>
        /\ RowsWith(assets, "A") = 1
        /\ rollbacks[w] = 0
        /\ \A v \in RaceWorkers \ {w} : pc[v] = "idle"

\* The worker has staged a symbol that another request has committed since.
LostTheRace(w) ==
    /\ pc[w] = "commit"
    /\ \E i \in DOMAIN session[w].assets :
          session[w].assets[i] \in SymbolsOf(assets)

====
